---- MODULE Spec2Model ----
(***************************************************************************)
(* Model of example/app/lib/ti.speech.js: the recognition session wrapper  *)
(* around the platform's speech recognizer and audio engine.               *)
(*                                                                         *)
(* The module-level variables of the source (speechRecognizer,             *)
(* audioEngine, request, recognitionTask) are the state.  Every exported   *)
(* function and every callback handed to the platform (the two result      *)
(* handlers and the tap block) is one action that runs to completion: the  *)
(* script runs on one thread and the platform delivers callbacks to it one *)
(* at a time.  The platform side (task lifecycle, when a handler is        *)
(* called and with what) is the environment and is nondeterministic.       *)
(*                                                                         *)
(* A call is computed on a record s that threads the source's variables    *)
(* through the statements of the function in order:                        *)
(*   sr  speechRecognizer   ae  audioEngine      rq  request               *)
(*   rt  recognitionTask    tk  native tasks     rqs native requests       *)
(*   n   requests built     tr  native calls issued by this call           *)
(*   ev  progress events emitted by this call    ret the call's outcome    *)
(***************************************************************************)
EXTENDS Integers, Sequences, FiniteSets

\* Bounds of the model.
MaxTasks == 3      \* recognition requests/tasks constructed in one run
MaxAuthorizing == 3 \* authorization requests awaiting the platform's response

Ids == {"a", "b"}                                  \* args.id values
ProgressArgs == {TRUE}                             \* args.progress is a function
Types == {"none", "url", "microphone", "bogus"}    \* args.type ("none": absent)
Locales == {"none", "en"}                          \* initialize(locale) ("none": absent)
Kinds == {"partial", "final", "error"}             \* (result, error) a handler is called with

SOURCE_TYPE_URL == "url"
SOURCE_TYPE_MICROPHONE == "microphone"

TaskIds == 1..MaxTasks

VARIABLES
    speechRecognizer,   \* "none" (undefined) or the locale the recognizer is bound to
    audioEngine,        \* the AVAudioEngine and its input node
    request,            \* 0 (null/undefined) or the id of the tracked request
    recognitionTask,    \* 0 (null/undefined) or the id of the tracked task
    tasks,              \* native tasks and the closure of each task's result handler
    requests,           \* native requests
    nRequests,          \* number of requests constructed so far
    op,                 \* the last call or callback: what it was and how it ended
    trace,              \* native calls the last call or callback issued, in order
    emitted,            \* progress events the last call or callback emitted, in order
    authorizing,        \* authorization requests the platform has not yet answered
    called              \* permission callbacks the last call or callback invoked, in order

vars == <<speechRecognizer, audioEngine, request, recognitionTask, tasks,
          requests, nRequests, op, trace, emitted, authorizing, called>>

\* var audioEngine;  (undefined until the first microphone session)
NoEngine ==
    [present |-> FALSE, inputNode |-> FALSE, running |-> FALSE,
     tapInstalled |-> FALSE, nativeTap |-> FALSE]

\* A task slot before recognitionTaskWithRequestResultHandler fills it.
\* instance and progressCallback are the variables the task's handler closes
\* over; callId is the id of the call that created the task and started whether
\* that call returned true, both kept for reference.
NoTask ==
    [state |-> "NotCreated", mode |-> "none", instance |-> "a", callId |-> "a",
     progressCallback |-> FALSE, done |-> FALSE, reported |-> FALSE,
     started |-> FALSE]

NoRequest == [kind |-> "none"]

\* The record of a call or callback: name, the resolved args.type of a
\* startRecognition or what a handler was called with, how it ended ("true",
\* "false", "void" or "throw"), the task it created or whose handler it is, and
\* after: for a startRecognition that directly follows a startRecognition that
\* returned true, the task that call created (else 0).
NoOp ==
    [name |-> "none", type |-> "none", ret |-> "void", task |-> 0, after |-> 0]

\* One native call, as recorded in the trace: the call, the task or request it
\* is made on, and (for removeTapOnBus) the flag and the native tap at the call.
Native(call, n, flag, native) ==
    [call |-> call, n |-> n, flag |-> flag, native |-> native]

Init ==
    /\ speechRecognizer = "none"
    /\ audioEngine = NoEngine
    /\ request = 0
    /\ recognitionTask = 0
    /\ tasks = [t \in TaskIds |-> NoTask]
    /\ requests = [r \in TaskIds |-> NoRequest]
    /\ nRequests = 0
    /\ op = NoOp
    /\ trace = <<>>
    /\ emitted = <<>>
    /\ authorizing = <<>>
    /\ called = <<>>

\* The state a call starts from.
Cur ==
    [sr |-> speechRecognizer, ae |-> audioEngine, rq |-> request,
     rt |-> recognitionTask, tk |-> tasks, rqs |-> requests, n |-> nRequests,
     tr |-> <<>>, ev |-> <<>>, ret |-> "void"]

\* The state a call leaves, with the record of the call.
Commit(s, name, type, task) ==
    /\ speechRecognizer' = s.sr
    /\ audioEngine' = s.ae
    /\ request' = s.rq
    /\ recognitionTask' = s.rt
    /\ tasks' = s.tk
    /\ requests' = s.rqs
    /\ nRequests' = s.n
    /\ trace' = s.tr
    /\ emitted' = s.ev
    /\ authorizing' = authorizing
    /\ called' = <<>>
    /\ op' = [name |-> name, type |-> type, ret |-> s.ret, task |-> task,
              after |-> IF /\ name = "startRecognition"
                           /\ op.name = "startRecognition" /\ op.ret = "true"
                        THEN op.task ELSE 0]

----------------------------------------------------------------------------
\* initialize(locale)

InitializeOn(s, locale) ==
    [s EXCEPT !.sr = IF locale # "none" THEN locale ELSE "default"]

Initialize(locale) ==
    Commit(InitializeOn(Cur, locale), "initialize", "none", 0)

----------------------------------------------------------------------------
\* requestSpeechRecognizerAuthorization(callback) and
\* requestMicrophoneAuthorization(callback)

\* Speech.SFSpeechRecognizerAuthorizationStatus*, and a value that is none of
\* them (the default: of the switch).
SFSpeechRecognizerAuthorizationStatusAuthorized == "Authorized"
SFSpeechRecognizerAuthorizationStatusDenied == "Denied"
SFSpeechRecognizerAuthorizationStatusRestricted == "Restricted"
SFSpeechRecognizerAuthorizationStatusNotDetermined == "NotDetermined"
AuthorizationStatuses ==
    {SFSpeechRecognizerAuthorizationStatusAuthorized,
     SFSpeechRecognizerAuthorizationStatusDenied,
     SFSpeechRecognizerAuthorizationStatusRestricted,
     SFSpeechRecognizerAuthorizationStatusNotDetermined,
     "unrecognized"}

Callbacks == {"f", "g"}                            \* callback functions given

\* AuthorizationResult that takes every status but Denied for a success.
AuthorizationResultUnlessDenied(status) ==
    [success |-> (status # SFSpeechRecognizerAuthorizationStatusDenied),
     message |-> "", status |-> status]

\* var success = false; var message = ''; switch (status) {...}
\* The object the callback is given.
AuthorizationResult(status) ==
    [success |-> (status = SFSpeechRecognizerAuthorizationStatusAuthorized),
     message |->
        CASE status = SFSpeechRecognizerAuthorizationStatusAuthorized
               -> "User gave access to speech recognition"
          [] status = SFSpeechRecognizerAuthorizationStatusDenied
               -> "User denied access to speech recognition"
          [] status = SFSpeechRecognizerAuthorizationStatusRestricted
               -> "Speech recognition restricted on this device"
          [] status = SFSpeechRecognizerAuthorizationStatusNotDetermined
               -> "Speech recognition not yet authorized"
          [] OTHER
               -> "Something has gone wrong requesting Speech Recognition authorization",
     status |-> status]

\* The object requestMicrophoneAuthorization's callback is given (no status).
MicrophoneResult(success) ==
    [success |-> success,
     message |-> IF success THEN "Recording permission has been granted."
                 ELSE "Recording permission has been denied.",
     status |-> "undefined"]

\* The function handed to the platform, called with its response: the
\* callback invocations it makes.
AuthorizationHandler(callback, status) ==
    <<[callback |-> callback, param |-> AuthorizationResult(status)]>>

MicrophoneHandler(callback, success) ==
    <<[callback |-> callback, param |-> MicrophoneResult(success)]>>

\* A call that hands the platform a handler and returns.
RequestAuthorization(name, feature, callback) ==
    /\ Len(authorizing) < MaxAuthorizing
    /\ authorizing' = Append(authorizing, [feature |-> feature, callback |-> callback])
    /\ called' = <<>>
    /\ trace' = <<Native(name, 0, FALSE, FALSE)>>
    /\ emitted' = <<>>
    /\ op' = [NoOp EXCEPT !.name = name]
    /\ UNCHANGED <<speechRecognizer, audioEngine, request, recognitionTask,
                   tasks, requests, nRequests>>

RequestSpeechRecognizerAuthorization(callback) ==
    RequestAuthorization("requestSpeechRecognizerAuthorization", "speech", callback)

RequestMicrophoneAuthorization(callback) ==
    RequestAuthorization("requestMicrophoneAuthorization", "microphone", callback)

\* The outstanding requests without the i-th.
Answered(i) ==
    [j \in 1..(Len(authorizing) - 1) |->
        IF j < i THEN authorizing[j] ELSE authorizing[j + 1]]

\* The platform answers an outstanding request, once: it calls the handler it
\* was given with the status (speech) or the success (microphone).
AuthorizationResponse(i, status) ==
    /\ i \in DOMAIN authorizing
    /\ authorizing[i].feature = "speech"
    /\ called' = AuthorizationHandler(authorizing[i].callback, status)
    /\ authorizing' = Answered(i)
    /\ trace' = <<>>
    /\ emitted' = <<>>
    /\ op' = [NoOp EXCEPT !.name = "authorizationHandler", !.type = status]
    /\ UNCHANGED <<speechRecognizer, audioEngine, request, recognitionTask,
                   tasks, requests, nRequests>>

MicrophoneResponse(i, success) ==
    /\ i \in DOMAIN authorizing
    /\ authorizing[i].feature = "microphone"
    /\ called' = MicrophoneHandler(authorizing[i].callback, success)
    /\ authorizing' = Answered(i)
    /\ trace' = <<>>
    /\ emitted' = <<>>
    /\ op' = [NoOp EXCEPT !.name = "microphoneAuthorizationHandler",
                          !.type = IF success THEN "granted" ELSE "denied"]
    /\ UNCHANGED <<speechRecognizer, audioEngine, request, recognitionTask,
                   tasks, requests, nRequests>>

----------------------------------------------------------------------------
\* isAvailable()

\* What JavaScript's a && b yields for a recognizer a and b its availability:
\* a itself when a is falsy (undefined before any initialize), otherwise b.
AndAvailable(sr, available) ==
    IF sr = "none" THEN "undefined"
    ELSE IF available THEN "true" ELSE "false"

\* return speechRecognizer && speechRecognizer.isAvailable();
\* available is the platform's answer, asked only when a recognizer is held.
IsAvailableOn(s, available) ==
    IF s.sr = "none"
    THEN [s EXCEPT !.ret = AndAvailable(s.sr, available)]
    ELSE [s EXCEPT !.ret = AndAvailable(s.sr, available),
                   !.tr = Append(@, Native("isAvailable", 0, available, FALSE))]

IsAvailable(available) ==
    /\ speechRecognizer = "none" => available
    /\ Commit(IsAvailableOn(Cur, available), "isAvailable", "none", 0)

----------------------------------------------------------------------------
\* The platform's side of a task and of a request.

\* SFSpeechRecognitionTask.cancel(): a task that has not completed starts
\* cancelling, and stays so until its handler has been given the error.
NativeCancel(s, t) ==
    [s EXCEPT !.tk[t].state = IF @ = "Completed" THEN @ ELSE "Canceling",
              !.tr = Append(@, Native("cancel", t, FALSE, FALSE))]

\* request.endAudio(): only the audio-buffer request has it; on the url request
\* the method is undefined and the call throws a TypeError.
EndAudio(s) ==
    IF s.rqs[s.rq].kind = "microphone"
    THEN [s EXCEPT !.tr = Append(@, Native("endAudio", s.rq, FALSE, FALSE))]
    ELSE [s EXCEPT !.ret = "throw"]

----------------------------------------------------------------------------
\* startRecognition(args)

\* type defaults to url when a url is given and to microphone otherwise.
ResolveType(type, hasUrl) ==
    IF type = "none" /\ hasUrl THEN SOURCE_TYPE_URL
    ELSE IF type = "none" THEN SOURCE_TYPE_MICROPHONE
    ELSE type

\* CancelPrior that drops the task without cancelling it.
CancelPriorNoCancel(s) == [s EXCEPT !.rt = 0, !.rq = 0]

\* CancelPrior that leaves the request tracked.
CancelPriorKeepsRequest(s) ==
    IF s.rt # 0 THEN [NativeCancel(s, s.rt) EXCEPT !.rt = 0] ELSE s

\* if (recognitionTask) { cancel; null }  if (request) { null }
CancelPrior(s) ==
    IF s.rt # 0
    THEN [NativeCancel(s, s.rt) EXCEPT !.rt = 0, !.rq = 0]
    ELSE [s EXCEPT !.rq = 0]

\* request = <a new native request>
NewRequest(s, kind) ==
    [s EXCEPT !.n = @ + 1,
              !.rq = s.n + 1,
              !.rqs[s.n + 1] = [kind |-> kind]]

\* The id the closure of a result handler holds: var instance = args.id.
ClosureInstance(id) == id

\* recognitionTask = speechRecognizer.recognitionTaskWithRequestResultHandler(
\*     request, function (result, error) {...})
\* The handler closes over progressCallback and instance of this call.
CreateTask(s, mode, id, progress) ==
    [s EXCEPT !.tk[s.rq] = [NoTask EXCEPT !.state = "Starting",
                                          !.mode = mode,
                                          !.instance = ClosureInstance(id),
                                          !.callId = id,
                                          !.progressCallback = progress],
              !.rt = s.rq,
              !.tr = Append(@, Native("createTask", s.rq, FALSE, FALSE))]

\* The url branch.  args.url.split throws when no url was given; initWithURL
\* may return nil (reqOk = FALSE).
StartUrl(s, hasUrl, id, progress, reqOk) ==
    IF ~hasUrl THEN [s EXCEPT !.ret = "throw"]
    ELSE IF ~reqOk THEN [s EXCEPT !.rq = 0, !.ret = "false"]
    ELSE LET s1 == NewRequest(s, "url")
             s2 == IF s1.sr = "none" THEN InitializeOn(s1, "none") ELSE s1
         IN  [CreateTask(s2, "url", id, progress) EXCEPT !.ret = "true"]

\* if (!audioEngine) { audioEngine = new AVAudioEngine(); }
\* Whether the engine has an input node is the platform's (nodeOk).
EnsureEngine(s, nodeOk) ==
    IF s.ae.present THEN s
    ELSE [s EXCEPT !.ae = [NoEngine EXCEPT !.present = TRUE, !.inputNode = nodeOk]]

\* if (audioEngine.inputNode) { removeTapOnBus(0); tapInstalled = false; }
RemovePriorTap(s) ==
    IF s.ae.inputNode
    THEN [s EXCEPT !.tr = Append(@, Native("removeTapOnBus", 0,
                                           s.ae.tapInstalled, s.ae.nativeTap)),
                   !.ae.nativeTap = FALSE,
                   !.ae.tapInstalled = FALSE]
    ELSE s

\* InstallTap that installs the tap and leaves the flag as it was.
InstallTapKeepsFlag(s) ==
    [s EXCEPT !.tr = Append(@, Native("installTap", 0, FALSE, s.ae.nativeTap)),
              !.ae.nativeTap = TRUE]

\* installTapOnBusBufferSizeFormatBlock(0, ...); tapInstalled = true;
InstallTap(s) ==
    [s EXCEPT !.tr = Append(@, Native("installTap", 0, FALSE, s.ae.nativeTap)),
              !.ae.nativeTap = TRUE,
              !.ae.tapInstalled = TRUE]

\* audioEngine.prepare(); audioEngine.startAndReturnError(...)
\* Starting a running engine succeeds; otherwise the platform decides (startOk).
StartEngine(s, startOk) ==
    LET ok == s.ae.running \/ startOk
    IN  [s EXCEPT !.tr = Append(@, Native("engineStart", 0, FALSE, FALSE)),
                  !.ae.running = ok,
                  !.ret = IF ok THEN "true" ELSE "false"]

\* The microphone branch.  There is no lazy initialize() here: with no
\* recognizer the task creation throws a TypeError.
StartMicrophone(s, id, progress, nodeOk, startOk) ==
    LET s1 == EnsureEngine(s, nodeOk)
    IN  IF ~s1.ae.inputNode THEN [s1 EXCEPT !.ret = "false"]
        ELSE LET s2 == NewRequest(s1, "microphone")
             IN  IF s2.sr = "none" THEN [s2 EXCEPT !.ret = "throw"]
                 ELSE StartEngine(
                          InstallTap(
                              RemovePriorTap(
                                  CreateTask(s2, "microphone", id, progress))),
                          startOk)

StartRecognitionOn(s, type0, hasUrl, id, progress, reqOk, nodeOk, startOk) ==
    LET type == ResolveType(type0, hasUrl)
        s1   == CancelPrior(s)
    IN  IF type = SOURCE_TYPE_URL THEN StartUrl(s1, hasUrl, id, progress, reqOk)
        ELSE IF type = SOURCE_TYPE_MICROPHONE
             THEN StartMicrophone(s1, id, progress, nodeOk, startOk)
        ELSE [s1 EXCEPT !.ret = "false"]

StartRecognition(type0, hasUrl, id, progress, reqOk, nodeOk, startOk) ==
    /\ nRequests < MaxTasks
    /\ LET s == StartRecognitionOn(Cur, type0, hasUrl, id, progress,
                                   reqOk, nodeOk, startOk)
           created == IF s.n > nRequests /\ s.tk[s.n].state # "NotCreated"
                      THEN s.n ELSE 0
           marked == IF created # 0
                     THEN [s EXCEPT !.tk[created].started = (s.ret = "true")]
                     ELSE s
       IN  Commit(marked, "startRecognition", ResolveType(type0, hasUrl), created)

----------------------------------------------------------------------------
\* stopRecognition()

\* audioEngine.isRunning() && audioEngine.stop()
StopEngine(s) ==
    IF s.ae.running
    THEN [s EXCEPT !.ae.running = FALSE,
                   !.tr = Append(@, Native("engineStop", 0, FALSE, FALSE))]
    ELSE s

\* if (inputNode && inputNode.tapInstalled) { removeTapOnBus(0); tapInstalled = false; }
RemoveTapIfInstalled(s) ==
    IF s.ae.inputNode /\ s.ae.tapInstalled
    THEN [s EXCEPT !.tr = Append(@, Native("removeTapOnBus", 0,
                                           s.ae.tapInstalled, s.ae.nativeTap)),
                   !.ae.nativeTap = FALSE,
                   !.ae.tapInstalled = FALSE]
    ELSE s

StopRecognitionOn(s) ==
    IF s.ae.present
    THEN LET s1 == StopEngine(s)
             s2 == IF s1.rq # 0 THEN EndAudio(s1) ELSE s1
         IN  IF s2.ret = "throw" THEN s2 ELSE RemoveTapIfInstalled(s2)
    ELSE IF s.rt # 0 THEN NativeCancel(s, s.rt)
    ELSE s

\* stopRecognition that also forgets the task and the request.
StopRecognitionAndForget ==
    Commit([StopRecognitionOn(Cur) EXCEPT !.rt = 0, !.rq = 0],
           "stopRecognition", "none", 0)

StopRecognition ==
    Commit(StopRecognitionOn(Cur), "stopRecognition", "none", 0)

----------------------------------------------------------------------------
\* The result handlers.  Handler t is the closure created with task t; the
\* variables recognitionTask, request and audioEngine it reads are the module's.

\* finished: result && result.isFinal()  (no result when called with an error)
Finished(kind) ==
    IF kind = "final" THEN "true" ELSE IF kind = "partial" THEN "false" ELSE "null"

\* EventId that reads the id of the tracked task's call.
EventIdOfTracked(s, t) ==
    IF s.rt # 0 THEN s.tk[s.rt].instance ELSE s.tk[t].instance

\* id: instance  (the closure's own)
EventId(s, t) == s.tk[t].instance

\* state: recognitionTask && recognitionTask.state  (the tracked task's)
EventState(s) == IF s.rt # 0 THEN s.tk[s.rt].state ELSE "null"

\* _.isFunction(progressCallback) && progressCallback({...})
\* An event also records whether task t was cancelling when its handler
\* emitted it (canceling) and whether the handler had already emitted an event
\* since the task began cancelling (again).
Emit(s, t, finished) ==
    IF s.tk[t].progressCallback
    THEN [s EXCEPT
            !.ev = Append(@, [handler |-> t, id |-> EventId(s, t),
                              state |-> EventState(s), finished |-> finished,
                              canceling |-> (s.tk[t].state = "Canceling"),
                              again |-> s.tk[t].reported]),
            !.tk[t].reported = (@ \/ s.tk[t].state = "Canceling")]
    ELSE s

\* The handler of the url branch.
UrlHandlerOn(s, t, kind) ==
    IF s.rt = 0 THEN s
    ELSE IF s.tk[s.rt].state = "Canceling"
         THEN [Emit(s, t, "true") EXCEPT !.tk[t].progressCallback = FALSE,
                                         !.rq = 0,
                                         !.rt = 0]
    ELSE LET s1 == Emit(s, t, Finished(kind))
         IN  IF kind \in {"error", "final"}
             THEN [s1 EXCEPT !.rt = 0, !.rq = 0]
             ELSE s1

\* The handler of the microphone branch.
MicrophoneHandlerOn(s, t, kind) ==
    LET s1 == Emit(s, t, Finished(kind))
    IN  IF kind \in {"error", "final"}
        THEN LET s2 == IF s1.ae.present
                       THEN StopEngine(RemoveTapIfInstalled(s1))
                       ELSE s1
                 s3 == IF s2.rq # 0 THEN EndAudio(s2) ELSE s2
             IN  IF s3.ret = "throw" THEN s3 ELSE [s3 EXCEPT !.rt = 0]
        ELSE s1

\* The platform calls the handler of a task it has not yet given a final
\* result or an error.  A task is finishing while its handler is given the
\* final result.
Deliver(s, t, kind) ==
    IF kind = "final" /\ s.tk[t].state # "Canceling"
    THEN [s EXCEPT !.tk[t].state = "Finishing"]
    ELSE s

\* A final result or an error is the last call of a task's handler: once the
\* handler has returned the task is completed, and its closure is never run
\* again (what it held is dropped).
Retire(s, t, kind) ==
    IF kind \in {"error", "final"}
    THEN [s EXCEPT !.tk[t] = [NoTask EXCEPT !.state = "Completed",
                                           !.mode = s.tk[t].mode,
                                           !.done = TRUE]]
    ELSE s

UrlResultHandler(t, kind) ==
    /\ tasks[t].mode = "url"
    /\ ~tasks[t].done
    /\ Commit(Retire(UrlHandlerOn(Deliver(Cur, t, kind), t, kind), t, kind),
              "urlHandler", kind, t)

MicrophoneResultHandler(t, kind) ==
    /\ tasks[t].mode = "microphone"
    /\ ~tasks[t].done
    /\ Commit(Retire(MicrophoneHandlerOn(Deliver(Cur, t, kind), t, kind), t, kind),
              "microphoneHandler", kind, t)

\* The tap block: request && request.appendAudioPCMBuffer(buffer).  Only the
\* audio-buffer request has the method.
TapBlockOn(s) ==
    IF s.rq = 0 THEN s
    ELSE IF s.rqs[s.rq].kind = "microphone"
         THEN [s EXCEPT !.tr = Append(@, Native("appendAudio", s.rq, FALSE, FALSE))]
    ELSE [s EXCEPT !.ret = "throw"]

TapBlock ==
    /\ audioEngine.nativeTap
    /\ audioEngine.running
    /\ Commit(TapBlockOn(Cur), "tapBlock", "none", 0)

\* The platform starts a task it was given: Starting -> Running.  (Finishing
\* and Completed come with the handler's last call, Canceling with cancel.)
PlatformAdvance(t) ==
    /\ tasks[t].state = "Starting"
    /\ tasks' = [tasks EXCEPT ![t].state = "Running"]
    /\ UNCHANGED <<speechRecognizer, audioEngine, request, recognitionTask,
                   requests, nRequests, op, trace, emitted, authorizing, called>>

\* What the platform may answer in a startRecognition of the given type: whether
\* initWithURL yields a request (url), whether a new engine has an input node
\* and whether the engine starts (microphone).
PlatformAnswers(type) ==
    IF type = SOURCE_TYPE_URL
    THEN [reqOk : BOOLEAN, nodeOk : {TRUE}, startOk : {TRUE}]
    ELSE IF type = SOURCE_TYPE_MICROPHONE
         THEN [reqOk : {TRUE}, nodeOk : BOOLEAN, startOk : BOOLEAN]
    ELSE [reqOk : {TRUE}, nodeOk : {TRUE}, startOk : {TRUE}]

----------------------------------------------------------------------------
Next ==
    \/ \E locale \in Locales : Initialize(locale)
    \/ \E type \in Types, hasUrl \in BOOLEAN, id \in Ids, progress \in ProgressArgs :
          \E p \in PlatformAnswers(ResolveType(type, hasUrl)) :
              StartRecognition(type, hasUrl, id, progress,
                               p.reqOk, p.nodeOk, p.startOk)
    \/ StopRecognition
    \/ \E available \in BOOLEAN : IsAvailable(available)
    \/ \E t \in TaskIds, kind \in Kinds : UrlResultHandler(t, kind)
    \/ \E t \in TaskIds, kind \in Kinds : MicrophoneResultHandler(t, kind)
    \/ TapBlock
    \/ \E t \in TaskIds : PlatformAdvance(t)

Spec == Init /\ [][Next]_vars

\* The permission requests.  They read and write none of the session's
\* variables, so they are run as a specification of their own.
NextAuthorization ==
    \/ \E callback \in Callbacks : RequestSpeechRecognizerAuthorization(callback)
    \/ \E callback \in Callbacks : RequestMicrophoneAuthorization(callback)
    \/ \E i \in 1..MaxAuthorizing, status \in AuthorizationStatuses :
          AuthorizationResponse(i, status)
    \/ \E i \in 1..MaxAuthorizing, success \in BOOLEAN :
          MicrophoneResponse(i, success)

SpecAuthorization == Init /\ [][NextAuthorization]_vars

----------------------------------------------------------------------------
\* Properties.

Handlers == {"urlHandler", "microphoneHandler"}

\* A task is live when it was created and has neither been cancelled nor
\* been given its final result or error.
Live(t) == tasks[t].state \in {"Starting", "Running", "Finishing"}

LiveTasks == {t \in TaskIds : Live(t)}

\* The requests live tasks work on (task t was created on request t).
LiveRequests == {r \in TaskIds : requests[r].kind # "none" /\ Live(r)}

Issued(call, n) ==
    \E i \in DOMAIN trace : trace[i].call = call /\ trace[i].n = n

\* C1: in every reachable state at most one task created by the module is
\* live, and at most one request is in use by a live task.
AtMostOneLiveTask ==
    /\ Cardinality(LiveTasks) <= 1
    /\ Cardinality(LiveRequests) <= 1

\* C2: when a startRecognition that returned true directly follows another
\* that returned true, the second call cancelled the first call's task before
\* it created its own, and the tracked task is the second call's.
SecondStartCancelsFirst ==
    (op.name = "startRecognition" /\ op.ret = "true" /\ op.after # 0)
    => /\ op.task # op.after
       /\ \E i, j \in DOMAIN trace :
             /\ i < j
             /\ trace[i].call = "cancel" /\ trace[i].n = op.after
             /\ trace[j].call = "createTask" /\ trace[j].n = op.task
       /\ recognitionTask = op.task

\* A url session directly followed by a microphone session, both started.
SecondStartWitness ==
    /\ op.name = "startRecognition" /\ op.ret = "true" /\ op.after # 0
    /\ tasks[op.after].mode = "url"
    /\ tasks[op.task].mode = "microphone"

\* C3: removeTapOnBus is called only while the installed flag is true (and a
\* tap is installed).
TapRemovedOnlyWhenInstalled ==
    \A i \in DOMAIN trace :
        trace[i].call = "removeTapOnBus" => (trace[i].flag /\ trace[i].native)

\* C4: once a session's task is cancelling, its handler emits one event, with
\* finished true, and nothing after it.
CancelingEmitsOneFinished ==
    \A i \in DOMAIN emitted :
        emitted[i].canceling => (emitted[i].finished = "true" /\ ~emitted[i].again)

\* C5: every event a task's handler emits carries the id of the call that
\* created the task.
EventsCarryCallId ==
    [][\A i \in DOMAIN emitted' :
          ~tasks[emitted'[i].handler].done
          => emitted'[i].id = tasks[emitted'[i].handler].callId]_vars

\* An event of an earlier session, emitted while a later session with another
\* id is tracked.
StaleEventWitness ==
    \E i \in DOMAIN emitted :
        /\ recognitionTask # 0
        /\ recognitionTask # emitted[i].handler
        /\ tasks[recognitionTask].callId # emitted[i].id

\* C6: a startRecognition that returned false leaves no task and no request
\* tracked, no tap installed and the engine not running.
FailedStartLeavesIdle ==
    (op.name = "startRecognition" /\ op.ret = "false")
    => /\ recognitionTask = 0
       /\ request = 0
       /\ ~audioEngine.tapInstalled
       /\ ~audioEngine.running

UnhandledStart(o) ==
    /\ o.name = "startRecognition"
    /\ o.type \notin {SOURCE_TYPE_URL, SOURCE_TYPE_MICROPHONE}

\* C7 (as claimed): a startRecognition of an unhandled type returns false and
\* leaves the engine, the tracked task and the tracked request as they were.
UnhandledTypeChangesNothing ==
    [][UnhandledStart(op')
       => /\ op'.ret = "false"
          /\ audioEngine' = audioEngine
          /\ recognitionTask' = recognitionTask
          /\ request' = request]_vars

\* C7 (amended): a startRecognition of an unhandled type returns false and
\* leaves the engine as it was; a task tracked at the call is cancelled, and on
\* return no task and no request is tracked.
UnhandledTypeCancelsAndClears ==
    [][UnhandledStart(op')
       => /\ op'.ret = "false"
          /\ audioEngine' = audioEngine
          /\ recognitionTask' = 0
          /\ request' = 0
          /\ recognitionTask # 0
             => /\ \E i \in DOMAIN trace' :
                      trace'[i].call = "cancel" /\ trace'[i].n = recognitionTask
                /\ tasks'[recognitionTask].state \in {"Canceling", "Completed"}]_vars

\* An unhandled type given while a task was active.
UnhandledTypeWitness ==
    /\ UnhandledStart(op)
    /\ op.ret = "false"
    /\ \E i \in DOMAIN trace : trace[i].call = "cancel"
    /\ audioEngine.running

\* C8: stopRecognition with a url task tracked cancels that task.
\* (stopRecognition leaves recognitionTask as it is.)
StopCancelsUrlTask ==
    (/\ op.name = "stopRecognition"
     /\ recognitionTask # 0
     /\ tasks[recognitionTask].mode = "url")
    => Issued("cancel", recognitionTask)

\* C9: when the handler of the tracked task is given an error or a final
\* result, it leaves no task and no request tracked.
TerminalCallClearsBoth ==
    [][(/\ op'.name \in Handlers
        /\ op'.type \in {"error", "final"}
        /\ op'.task = recognitionTask
        /\ ~tasks[recognitionTask].done)
       => (recognitionTask' = 0 /\ request' = 0)]_vars

\* C10: when the handler of the latest session, which was started
\* successfully, is given its error or final result, and every task has then
\* had its own, the session is idle.
AllTerminalThenIdle ==
    [][(/\ op'.name \in Handlers
        /\ op'.task = nRequests
        /\ tasks[nRequests].started
        /\ ~tasks[nRequests].done
        /\ \A t \in TaskIds : tasks'[t].state # "NotCreated" => tasks'[t].done)
       => (recognitionTask' = 0 /\ request' = 0)]_vars

\* No session is active: no task is tracked, the engine is absent or not
\* running, and no tap is installed.
NoActiveSession ==
    /\ recognitionTask = 0
    /\ ~audioEngine.running
    /\ ~audioEngine.tapInstalled
    /\ ~audioEngine.nativeTap

\* C11: stopRecognition called while no session is active changes no module
\* state and issues no native call.
StopWhenIdleIsNoOp ==
    [][(op'.name = "stopRecognition" /\ NoActiveSession)
       => /\ trace' = <<>>
          /\ op'.ret = "void"
          /\ speechRecognizer' = speechRecognizer
          /\ audioEngine' = audioEngine
          /\ request' = request
          /\ recognitionTask' = recognitionTask
          /\ tasks' = tasks]_vars

\* C12: isAvailable returns the boolean false, without an error, while no
\* recognizer is held, and otherwise what the platform answers for the held
\* recognizer.
IsAvailableReturnsBoolean ==
    op.name = "isAvailable"
    => IF speechRecognizer = "none"
       THEN op.ret = "false" /\ trace = <<>>
       ELSE /\ Len(trace) = 1
            /\ trace[1].call = "isAvailable"
            /\ op.ret = (IF trace[1].flag THEN "true" ELSE "false")

\* C13: in every reachable state the tapInstalled flag is true exactly when a
\* tap is installed on bus 0 of the input node.
TapFlagMatchesNativeTap ==
    audioEngine.tapInstalled = audioEngine.nativeTap

\* A tap that was installed by a session and has been removed by that
\* session's handler.
TapFlagWitness ==
    /\ op.name = "microphoneHandler"
    /\ Issued("removeTapOnBus", 0)
    /\ audioEngine.present
    /\ ~audioEngine.nativeTap

\* C14: a result handler called while no task is tracked emits no progress
\* event and changes no module or engine state, in both modes.
UntrackedHandlerDoesNothing ==
    [][(op'.name \in Handlers /\ recognitionTask = 0)
       => /\ emitted' = <<>>
          /\ trace' = <<>>
          /\ speechRecognizer' = speechRecognizer
          /\ audioEngine' = audioEngine
          /\ request' = request
          /\ recognitionTask' = recognitionTask]_vars

\* C15: the handler of requestSpeechRecognizerAuthorization, called with the
\* platform's response, invokes the callback exactly once, with the platform's
\* status unchanged and with success true exactly when the status is
\* Authorized.
AuthorizationCallbackOnce ==
    op.name = "authorizationHandler"
    => /\ Len(called) = 1
       /\ called[1].param.status = op.type
       /\ called[1].param.success
            = (op.type = SFSpeechRecognizerAuthorizationStatusAuthorized)

\* A status that is none of the four, answered while another request is still
\* outstanding.
AuthorizationWitness ==
    /\ op.name = "authorizationHandler"
    /\ op.type \notin {SFSpeechRecognizerAuthorizationStatusAuthorized,
                       SFSpeechRecognizerAuthorizationStatusDenied,
                       SFSpeechRecognizerAuthorizationStatusRestricted,
                       SFSpeechRecognizerAuthorizationStatusNotDetermined}
    /\ Len(called) = 1
    /\ ~called[1].param.success
    /\ authorizing # <<>>

\* C16: the handler of a task that was cancelled and replaced, called while a
\* newer task is tracked, leaves the newer session as it is: the tracked task
\* and request, the engine and the tap stay, the request's audio is not ended
\* and no event reports the tracked task's state.
SupersededHandlerLeavesNewer ==
    [][(/\ op'.name \in Handlers
        /\ recognitionTask # 0
        /\ op'.task < recognitionTask
        /\ tasks[op'.task].state = "Canceling"
        /\ ~tasks[op'.task].done)
       => /\ recognitionTask' = recognitionTask
          /\ request' = request
          /\ audioEngine' = audioEngine
          /\ \A i \in DOMAIN trace' : trace'[i].call # "endAudio"
          /\ \A i \in DOMAIN emitted' : emitted'[i].state = "null"]_vars

\* C17: stopRecognition leaves the tracked task and the tracked request as
\* they are; a tracked task or request is only ever cleared by startRecognition
\* or by a result handler.
StopKeepsReferences ==
    [][/\ op'.name = "stopRecognition"
          => (recognitionTask' = recognitionTask /\ request' = request)
       /\ ((recognitionTask # 0 /\ recognitionTask' = 0)
           \/ (request # 0 /\ request' = 0))
          => op'.name \in Handlers \cup {"startRecognition"}]_vars

\* A microphone session that was stopped: the engine is stopped and the tap
\* removed, the task and the request are still tracked.
StopKeepsReferencesWitness ==
    /\ op.name = "stopRecognition"
    /\ Issued("engineStop", 0)
    /\ Issued("removeTapOnBus", 0)
    /\ recognitionTask # 0
    /\ request = recognitionTask
    /\ Issued("endAudio", request)

\* C18: whenever the tap block runs with a request tracked, that request is a
\* microphone (audio-buffer) request, and the buffer is appended to it.
TapFeedsMicrophoneRequest ==
    (op.name = "tapBlock" /\ request # 0)
    => /\ requests[request].kind = "microphone"
       /\ op.ret # "throw"
       /\ Issued("appendAudio", request)

\* C19: whenever startRecognition comes to create a task (it has built the
\* request the task works on), the task is created on a recognizer: a missing
\* recognizer has been created with the default locale, and a recognizer that
\* was held is the one still held.
RecognizerPresentAtTaskCreation ==
    [][(op'.name = "startRecognition" /\ nRequests' > nRequests)
       => /\ op'.ret # "throw"
          /\ op'.task # 0
          /\ speechRecognizer' # "none"
          /\ speechRecognizer = "none" => speechRecognizer' = "default"
          /\ speechRecognizer # "none" => speechRecognizer' = speechRecognizer]_vars

\* C20: after every call and callback, if the audio engine is running then the
\* tap is installed and a request is tracked.
RunningEngineFeedsRequest ==
    audioEngine.running => (audioEngine.tapInstalled /\ request # 0)

====
